---- MODULE Spec2Model ----
(***************************************************************************)
(* pmx: batch management of Proxmox guests through the pvesh client.       *)
(* One behaviour of this module is one invocation of the command line      *)
(* tool: argument values are fixed in Init, every answer of the remote     *)
(* client is chosen when the call completes.                               *)
(*                                                                         *)
(* Python strings are sequences of one-character strings, so that str(),   *)
(* slicing and concatenation are computed, not assumed.                    *)
(***************************************************************************)
EXTENDS Integers, Sequences, FiniteSets, TLC

VARIABLES
    args,               \* argparse namespace of main()
    pc,                 \* position of the main coroutine
    raised,             \* where the exception that ended main() was raised
    cluster_resources,  \* value returned by the fetch of /cluster/resources
    resources,          \* resolved resource list
    vmids,              \* presence map (ordered dict) of the resolver
    report,             \* "... do not exist" report printed by the resolver
    cluster_ha,         \* value returned by the fetch of /cluster/ha/resources
    ha_resources,       \* HA lookup (ordered dict keyed by the stripped sid)
    tasks,              \* action invocations of the running batch
    batch,              \* state of the run_on_..._resources call
    calls,              \* remote calls issued by action functions, in order
    out,                \* other lines printed to the operator
    confirm,            \* the destroy prompt and the answer read from it
    fetches,            \* per-node replication fetches of the running gather
    replications,       \* replication records handed to main_replications
    listing,            \* lines printed by replications_command
    seconds,            \* argument of the running call of humanize_seconds
    humanized,          \* value that call returned
    sigint              \* the first Ctrl-C asked to cancel main(), which is not cancelled

resolvervars == <<cluster_resources, resources, vmids, report>>
havars == <<cluster_ha, ha_resources>>
batchvars == <<tasks, batch, calls>>
replvars == <<fetches, replications, listing>>
humanvars == <<seconds, humanized>>

vars == <<args, pc, raised, resolvervars, havars, batchvars, out, confirm, replvars,
          humanvars, sigint>>

----------------------------------------------------------------------------
(* Bounds of the model *)

\* longest list of positional ids
MaxIds == 2

\* largest number of seconds handed to humanize_seconds
MaxSeconds == 90000

----------------------------------------------------------------------------
(* Python values *)

Digits == <<"0", "1", "2", "3", "4", "5", "6", "7", "8", "9">>

\* str(n) of a non-negative int
RECURSIVE Str(_)
Str(n) == IF n < 10 THEN <<Digits[n + 1]>>
          ELSE Str(n \div 10) \o <<Digits[(n % 10) + 1]>>

\* s[3:]
PrefixLen == 3
StripPrefix(s) == SubSeq(s, PrefixLen + 1, Len(s))

\* str.lower() on the letters the confirmation answers use
LowerChar(c) == CASE c = "Y" -> "y"
                  [] c = "E" -> "e"
                  [] c = "S" -> "s"
                  [] c = "N" -> "n"
                  [] c = "O" -> "o"
                  [] OTHER -> c
Lower(s) == [i \in 1..Len(s) |-> LowerChar(s[i])]

\* a dict key: Python never finds an int key equal to a str key
PyInt(n) == [py |-> "int", repr |-> Str(n)]
PyStr(s) == [py |-> "str", repr |-> s]

\* dicts keep insertion order: a sequence of [k, v] entries
DictHas(d, k) == \E i \in 1..Len(d) : d[i].k = k
DictGet(d, k) == d[CHOOSE i \in 1..Len(d) : d[i].k = k].v
DictSet(d, k, v) ==
    IF DictHas(d, k)
    THEN [i \in 1..Len(d) |-> IF d[i].k = k THEN [k |-> k, v |-> v] ELSE d[i]]
    ELSE Append(d, [k |-> k, v |-> v])

\* for x in ids: d[wrap(x)] = False
RECURSIVE FromKeys(_, _)
FromKeys(keys, d) ==
    IF keys = <<>> THEN d
    ELSE FromKeys(Tail(keys), DictSet(d, Head(keys), FALSE))

----------------------------------------------------------------------------
(* The remote cluster, as the pvesh client reports it *)

N1 == <<"n", "1">>
N2 == <<"n", "2">>
N3 == <<"n", "3">>

ComputeTypes == {"lxc", "qemu"}

\* one row of `pvesh get /cluster/resources`; rows of type node and storage
\* carry no vmid and no status (0 and "" here, never read for them)
Guest(type, vmid, node, status) ==
    [type |-> type, vmid |-> vmid, hasnode |-> TRUE, node |-> node, status |-> status]
NodeRow(node) ==
    [type |-> "node", vmid |-> 0, hasnode |-> TRUE, node |-> node, status |-> ""]
PoolRow ==
    [type |-> "pool", vmid |-> 0, hasnode |-> FALSE, node |-> <<>>, status |-> ""]

\* the collections the fetch of /cluster/resources can answer with; n3 is a
\* node of the cluster that owns no guest, and so is n2 in the first one
ClusterResponses ==
    { << NodeRow(N1), Guest("lxc", 1, N1, "running"), Guest("qemu", 2, N1, "stopped"),
         NodeRow(N2), Guest("qemu", 10, N1, "paused"), NodeRow(N3), PoolRow >>,
      << Guest("qemu", 10, N2, "stopped"), PoolRow, Guest("lxc", 1, N1, "stopped"),
         NodeRow(N3), NodeRow(N2), NodeRow(N1) >> }

\* one row of `pvesh get /cluster/ha/resources`
HaRow(sid, state) == [hassid |-> TRUE, sid |-> sid, state |-> state]
HaRowNoSid == [hassid |-> FALSE, sid |-> <<>>, state |-> "started"]

HaStates == {"started", "stopped", "disabled", "ignored"}

\* --ha-state given without a value: nargs="?" has no const, the flag is None
NoneState == "None"
HaStateArgs == HaStates \cup {NoneState}

HaResponses ==
    { << HaRow(<<"c", "t", ":", "1">>, "started"), HaRowNoSid,
         HaRow(<<"v", "m", ":", "1", "0">>, "ignored") >>,
      << HaRow(<<"v", "m", ":", "2">>, "stopped"),
         HaRow(<<"v", "m", ":", "7">>, "started") >> }

\* what one run of the pvesh subprocess can end with
\* "ok": exit 0 and a JSON body; "empty": exit 0 and a blank body;
\* "malformed": exit 0 and a body that is no JSON; "undecodable": exit 0 and
\* a body that is no UTF-8; "nonzero": another exit status, stderr UTF-8;
\* "nonzero_undecodable": another exit status, stderr no UTF-8
Outcomes == {"ok", "nonzero", "empty", "malformed", "undecodable", "nonzero_undecodable"}

----------------------------------------------------------------------------
(* run_pvesh_command *)

\* "raise": stderr.decode() (line 25), stdout.decode() (line 28) or
\* json.loads (line 33) raises and nothing in the program catches it;
\* "empty": {} is returned; "value": the parsed body is returned
RunPvesh(verb, outcome) ==
    CASE outcome = "nonzero_undecodable" -> "raise"
      [] outcome = "nonzero" -> "empty"
      [] outcome = "undecodable" -> "raise"
      [] outcome = "empty" -> "empty"
      [] verb # "delete" /\ outcome = "malformed" -> "raise"
      [] verb # "delete" -> "value"
      [] OTHER -> "empty"

----------------------------------------------------------------------------
(* get_filtered_cluster_resources *)

NoReport == [kind |-> "none", missing |-> <<>>]

\* keys of a presence dict whose value is still False, in dict order
RECURSIVE Missing(_)
Missing(d) ==
    IF d = <<>> THEN <<>>
    ELSE (IF d[1].v THEN <<>> ELSE <<d[1].k.repr>>) \o Missing(Tail(d))

MissingReport(kind, d) ==
    IF Missing(d) = <<>> THEN NoReport ELSE [kind |-> kind, missing |-> Missing(d)]

ByNodeMatch(nodes, r) ==
    r.hasnode /\ DictHas(nodes, PyStr(r.node)) /\ r.type \in ComputeTypes

\* the loop of lines 71-77 over the rest of the collection
RECURSIVE ByNodeLoop(_, _)
ByNodeLoop(rows, st) ==
    IF rows = <<>> THEN st
    ELSE LET r == Head(rows) IN
         ByNodeLoop(Tail(rows),
            IF ByNodeMatch(st.nodes, r)
            THEN [nodes |-> DictSet(st.nodes, PyStr(r.node), TRUE),
                  vmids |-> DictSet(st.vmids, PyInt(r.vmid), TRUE),
                  resources |-> Append(st.resources, r)]
            ELSE st)

ByIdsMatch(d, r) ==
    r.type \in ComputeTypes /\ DictHas(d, PyStr(Str(r.vmid)))

\* ByIdsLoop with a fault: a matching resource is appended but its id is not
\* marked found
RECURSIVE ByIdsLoop_NoMark(_, _)
ByIdsLoop_NoMark(rows, st) ==
    IF rows = <<>> THEN st
    ELSE LET r == Head(rows) IN
         ByIdsLoop_NoMark(Tail(rows),
            IF ByIdsMatch(st.vmids, r)
            THEN [vmids |-> st.vmids, resources |-> Append(st.resources, r)]
            ELSE st)

\* the loop of lines 93-97
RECURSIVE ByIdsLoop(_, _)
ByIdsLoop(rows, st) ==
    IF rows = <<>> THEN st
    ELSE LET r == Head(rows) IN
         ByIdsLoop(Tail(rows),
            IF ByIdsMatch(st.vmids, r)
            THEN [vmids |-> DictSet(st.vmids, PyStr(Str(r.vmid)), TRUE),
                  resources |-> Append(st.resources, r)]
            ELSE st)

\* the loop of lines 115-119
RECURSIVE AllLoop(_, _)
AllLoop(rows, st) ==
    IF rows = <<>> THEN st
    ELSE LET r == Head(rows) IN
         AllLoop(Tail(rows),
            IF r.type \in ComputeTypes
            THEN [vmids |-> DictSet(st.vmids, PyStr(Str(r.vmid)), TRUE),
                  resources |-> Append(st.resources, r)]
            ELSE st)

\* NonDestructiveCommands with a fault: vzdump is let through with an empty
\* selector
NonDestructiveCommands_Vzdump == {"status", "ha", "listsnapshot", "vzdump"}

NonDestructiveCommands == {"status", "ha", "listsnapshot"}

PyStrs(ids) == [i \in 1..Len(ids) |-> PyStr(ids[i])]

\* which branch of the resolver runs, and whether it fetches
ResolverBranch(a) ==
    CASE a.node /\ a.ids = <<>> -> "missing_node_ids"
      [] a.node -> "by_node"
      [] a.ids # <<>> -> "by_ids"
      [] a.command \in NonDestructiveCommands -> "all"
      [] OTHER -> "none"

ResolverFetches(a) == ResolverBranch(a) \in {"by_node", "by_ids", "all"}

\* the value returned for args a when the fetch answered `rows`;
\* tuple = FALSE is the bare list returned at line 64
get_filtered_cluster_resources(a, rows) ==
    CASE ResolverBranch(a) = "missing_node_ids" ->
            [tuple |-> FALSE, resources |-> <<>>, vmids |-> <<>>,
             report |-> [kind |-> "missing_node_ids", missing |-> <<>>]]
      [] ResolverBranch(a) = "by_node" ->
            LET st == ByNodeLoop(rows, [nodes |-> FromKeys(PyStrs(a.ids), <<>>),
                                        vmids |-> <<>>, resources |-> <<>>])
            IN [tuple |-> TRUE, resources |-> st.resources, vmids |-> st.vmids,
                report |-> MissingReport("nodes", st.nodes)]
      [] ResolverBranch(a) = "by_ids" ->
            LET st == ByIdsLoop(rows, [vmids |-> FromKeys(PyStrs(a.ids), <<>>),
                                       resources |-> <<>>])
            IN [tuple |-> TRUE, resources |-> st.resources, vmids |-> st.vmids,
                report |-> MissingReport("vms", st.vmids)]
      [] ResolverBranch(a) = "all" ->
            LET st == AllLoop(rows, [vmids |-> <<>>, resources |-> <<>>])
            IN [tuple |-> TRUE, resources |-> st.resources, vmids |-> st.vmids,
                report |-> NoReport]
      [] OTHER ->
            [tuple |-> TRUE, resources |-> <<>>, vmids |-> <<>>, report |-> NoReport]


----------------------------------------------------------------------------
(* HA lookups *)

\* the loop of get_cluster_ha_resources (restricted = FALSE) and of
\* get_filtered_cluster_ha_resources (restricted = TRUE)
RECURSIVE HaLoop(_, _, _, _)
HaLoop(rows, restricted, keys, d) ==
    IF rows = <<>> THEN d
    ELSE LET row == Head(rows)
             vmid == PyStr(StripPrefix(row.sid))
         IN HaLoop(Tail(rows), restricted, keys,
               IF ~row.hassid THEN d
               ELSE IF restricted /\ ~DictHas(keys, vmid) THEN d
               ELSE DictSet(d, vmid, row))

get_cluster_ha_resources(rows) == HaLoop(rows, FALSE, <<>>, <<>>)

get_filtered_cluster_ha_resources(keys, rows) == HaLoop(rows, TRUE, keys, <<>>)

\* ha_resources.get(str(resource["vmid"])); NoHa is None
NoHa == [hassid |-> FALSE, sid |-> <<>>, state |-> "none"]
HaOf(d, r) ==
    IF DictHas(d, PyStr(Str(r.vmid))) THEN DictGet(d, PyStr(Str(r.vmid))) ELSE NoHa

----------------------------------------------------------------------------
(* Replication records *)

\* one replication job as pvesh reports it; disable is 1 when the key is set
Job(guest, jobnum, source, target, disable) ==
    [guest |-> guest, id |-> Str(guest) \o <<"-">> \o Str(jobnum),
     source |-> source, target |-> target, disable |-> disable]

\* answers of `pvesh get /nodes`: the node names, in the order listed
NodesResponses == { <<N2, N1, N3>>, <<N1, N2>> }

\* answers of `pvesh get /nodes/{node}/replication/`
NodeReplicationResponses(node) ==
    CASE node = N1 -> { << Job(2, 1, N1, N3, 1), Job(1, 0, N1, N2, 0), Job(2, 0, N1, N2, 0) >>,
                        << Job(2, 0, N1, N2, 0), Job(2, 1, N1, N3, 0) >> }
      [] node = N2 -> { << Job(10, 0, N2, N1, 0) >> }
      [] OTHER -> { <<>> }

\* answers of `pvesh get /cluster/replication`
ClusterReplicationResponses ==
    { << Job(10, 0, N2, N1, 0), Job(2, 1, N1, N3, 1), Job(1, 0, N1, N2, 0),
         Job(2, 0, N1, N2, 0) >> }

\* code points of the characters in use, in Python's order
Alphabet == <<"-", "0", "1", "2", "3", "4", "5", "6", "7", "8", "9", ":",
              "c", "m", "n", "t", "v">>
Ord(c) == CHOOSE i \in 1..Len(Alphabet) : Alphabet[i] = c

\* a < b on str
RECURSIVE StrLess(_, _)
StrLess(a, b) ==
    IF b = <<>> THEN FALSE
    ELSE IF a = <<>> THEN TRUE
    ELSE IF Head(a) # Head(b) THEN Ord(Head(a)) < Ord(Head(b))
    ELSE StrLess(Tail(a), Tail(b))

\* sorted(guesttoreplicas.keys()): ints, ascending
RECURSIVE SortedInts(_)
SortedInts(S) ==
    IF S = {} THEN <<>>
    ELSE LET m == CHOOSE x \in S : \A y \in S : x <= y
         IN <<m>> \o SortedInts(S \ {m})

\* sorted(configs, key=lambda x: x['target']): stable
RECURSIVE InsertByTarget(_, _)
InsertByTarget(sorted, x) ==
    IF sorted = <<>> THEN <<x>>
    ELSE IF StrLess(x.target, Head(sorted).target) THEN <<x>> \o sorted
    ELSE <<Head(sorted)>> \o InsertByTarget(Tail(sorted), x)

RECURSIVE SortedByTarget(_, _)
SortedByTarget(configs, acc) ==
    IF configs = <<>> THEN acc
    ELSE SortedByTarget(Tail(configs), InsertByTarget(acc, Head(configs)))

RECURSIVE Flatten(_)
Flatten(seqs) == IF seqs = <<>> THEN <<>> ELSE Head(seqs) \o Flatten(Tail(seqs))

\* Aggregate with a fault: the guest groups are emitted in the order the
\* guests were first seen, the keys are not sorted
Aggregate_InsertionOrder(node_configs) ==
    LET all == Flatten(node_configs)
        group(g) == SelectSeq(all, LAMBDA c : c.guest = g)
        firsts == SelectSeq([i \in 1..Len(all) |-> i],
                            LAMBDA i : \A j \in 1..(i - 1) : all[j].guest # all[i].guest)
    IN Flatten([k \in 1..Len(firsts) |-> SortedByTarget(group(all[firsts[k]].guest), <<>>)])

\* lines 133-151, node_configs being the answers in the order of `nodes`
Aggregate(node_configs) ==
    LET all == Flatten(node_configs)
        group(g) == SelectSeq(all, LAMBDA c : c.guest = g)
        order == SortedInts({all[i].guest : i \in 1..Len(all)})
    IN Flatten([i \in 1..Len(order) |-> SortedByTarget(group(order[i]), <<>>)])

\* which branch of get_filtered_high_fidelity_cluster_replications runs
HfBranch(a) ==
    CASE a.node /\ a.ids = <<>> -> "missing_node_ids"
      [] a.node -> "by_node"
      [] a.command = "replications" /\ a.ids = <<>> -> "all"
      [] a.ids # <<>> -> "by_ids"
      [] OTHER -> "none"

\* lines 188-198: the requested nodes that /nodes lists, in request order
RECURSIVE MarkAll(_, _)
MarkAll(keys, d) ==
    IF keys = <<>> THEN d
    ELSE MarkAll(Tail(keys), IF DictHas(d, Head(keys)) THEN DictSet(d, Head(keys), TRUE) ELSE d)

RECURSIVE Present(_)
Present(d) ==
    IF d = <<>> THEN <<>>
    ELSE (IF d[1].v THEN <<d[1].k.repr>> ELSE <<>>) \o Present(Tail(d))

\* lines 217-221: the replicas of /cluster/replication whose guest was asked for
RECURSIVE LowFidelityLoop(_, _)
LowFidelityLoop(rows, st) ==
    IF rows = <<>> THEN st
    ELSE LET r == Head(rows)
             vmid == PyStr(Str(r.guest))
         IN LowFidelityLoop(Tail(rows),
               IF DictHas(st.vmids, vmid)
               THEN [vmids |-> DictSet(st.vmids, vmid, TRUE),
                     nodesset |-> DictSet(st.nodesset, PyStr(r.source), TRUE)]
               ELSE st)

\* the nodes whose replication detail is fetched, and the report printed,
\* when the first fetch answered `rows`
HfPlan(a, rows) ==
    CASE HfBranch(a) = "by_node" ->
            LET nodes == MarkAll(PyStrs(rows), FromKeys(PyStrs(a.ids), <<>>))
            IN [nodes |-> Present(nodes), report |-> MissingReport("nodes", nodes)]
      [] HfBranch(a) = "all" -> [nodes |-> rows, report |-> NoReport]
      [] HfBranch(a) = "by_ids" ->
            LET st == LowFidelityLoop(rows, [vmids |-> FromKeys(PyStrs(a.ids), <<>>),
                                             nodesset |-> <<>>])
            IN [nodes |-> Present(st.nodesset), report |-> MissingReport("vms", st.vmids)]
      [] OTHER -> [nodes |-> <<>>, report |-> NoReport]

\* lines 236-237
HfFilter(a, reps) ==
    IF HfBranch(a) = "by_ids"
    THEN SelectSeq(reps, LAMBDA r : DictHas(FromKeys(PyStrs(a.ids), <<>>), PyStr(Str(r.guest))))
    ELSE reps

\* replications_command: the job id and the annotation of each line
replications_command(reps) ==
    [i \in 1..Len(reps) |->
        [id |-> reps[i].id, disable |-> IF reps[i].disable = 1 THEN "(disabled)" ELSE ""]]

\* lines 639-650
RECURSIVE ByIdsHaDispatch(_, _)
ByIdsHaDispatch(ids, reps) ==
    IF ids = <<>> THEN <<>>
    ELSE SelectSeq(reps, LAMBDA r : r.guest # 0 /\ Str(r.guest) = Head(ids))
         \o ByIdsHaDispatch(Tail(ids), reps)

HaDispatched(a, reps) ==
    IF a.sync THEN reps
    ELSE IF a.node THEN reps
    ELSE ByIdsHaDispatch(a.ids, reps)

----------------------------------------------------------------------------
(* Action functions: what one invocation does before it first suspends *)

LifecycleCommands == {"start", "stop", "shutdown", "reboot", "resume", "suspend"}
HaAllCommands == {"ha-set-started-all", "ha-set-ignored-all"}
ReplicationCommands == {"replications", "replication-schedule-now"}
VmsCommands == {"status", "destroy", "snapshot", "delsnapshot", "listsnapshot",
                "vzdump", "ha", "ha-set", "ha-remove"} \cup LifecycleCommands
Commands == VmsCommands \cup HaAllCommands \cup ReplicationCommands

validate_actions(action, status) ==
    IF status = "stopped" /\ action \in {"stop", "shutdown"} THEN FALSE
    ELSE IF status = "running" /\ action = "start" THEN FALSE
    ELSE TRUE

\* a remote call: verb, the kind of API path, and the id the path names
Call(verb, api, target) == [verb |-> verb, api |-> api, target |-> target]
NoCall == Call("none", "", <<>>)

\* result of the synchronous part of an action function
Step(call, msg, validations) ==
    [call |-> call, msg |-> msg, validations |-> validations, raises |-> FALSE]

\* the action raised before any remote call: create_subprocess_exec refuses
\* an argument that is None (TypeError), and nothing catches it
Raise(msg) == [call |-> NoCall, msg |-> msg, validations |-> 0, raises |-> TRUE]

perform_command(a, r) ==
    IF ~validate_actions(a.command, r.status)
    THEN Step(NoCall, "rejected", 1)
    ELSE Step(Call("create", a.command, Str(r.vmid)), "sent", 1)

destroy_command(a, r) == Step(Call("delete", "guest", Str(r.vmid)), "destroying", 0)

snapshot_command(a, r) == Step(Call("create", "snapshot", Str(r.vmid)), "snapshotting", 0)

delsnapshot_command(a, r) == Step(Call("delete", "snapshot", Str(r.vmid)), "delsnapshot", 0)

listsnapshot_command(a, r) == Step(Call("ls", "snapshot", Str(r.vmid)), "", 0)

vzdump_command(a, r) == Step(Call("create", "vzdump", Str(r.vmid)), "vzdump", 0)

ha_command(a, r, h) ==
    IF h # NoHa THEN Step(NoCall, h.state, 0) ELSE Step(NoCall, "does not exist", 0)

\* the sid synthesized for a new HA record
NewSid(r) == (IF r.type = "qemu" THEN <<"v", "m", ":">> ELSE <<"c", "t", ":">>) \o Str(r.vmid)

ha_set_command(a, r, h) ==
    IF h # NoHa
    THEN IF a.ha_state = h.state
         THEN Step(NoCall, "already", 0)
         ELSE IF a.ha_state = NoneState THEN Raise("updating")
         ELSE Step(Call("set", "ha", h.sid), "updating", 0)
    ELSE IF a.ha_state = NoneState THEN Raise("creating")
    ELSE Step(Call("create", "ha", NewSid(r)), "creating", 0)

\* ha_set_started_all_command and ha_set_ignored_all_command
ha_set_all_command(state, r, h) ==
    IF h = NoHa THEN Step(NoCall, "", 0)
    ELSE IF state = h.state THEN Step(NoCall, "already", 0)
    ELSE Step(Call("set", "ha", h.sid), "updating", 0)

replication_schedule_now(a, r) ==
    IF r.disable = 1 THEN Step(NoCall, "", 0)
    ELSE Step(Call("create", "schedule_now", r.id), "replication", 0)

ha_remove_command(a, r, h) ==
    IF h = NoHa THEN Step(NoCall, "does not exist", 0)
    ELSE Step(Call("delete", "ha", h.sid), "remove", 0)

\* the action function the command hands to the dispatcher, applied to r
Fn(a, r, had) ==
    CASE a.command \in LifecycleCommands -> perform_command(a, r)
      [] a.command = "destroy" -> destroy_command(a, r)
      [] a.command = "snapshot" -> snapshot_command(a, r)
      [] a.command = "delsnapshot" -> delsnapshot_command(a, r)
      [] a.command = "listsnapshot" -> listsnapshot_command(a, r)
      [] a.command = "vzdump" -> vzdump_command(a, r)
      [] a.command = "ha" -> ha_command(a, r, HaOf(had, r))
      [] a.command = "ha-set" -> ha_set_command(a, r, HaOf(had, r))
      [] a.command = "ha-remove" -> ha_remove_command(a, r, HaOf(had, r))
      [] a.command = "ha-set-started-all" -> ha_set_all_command("started", r, HaOf(had, r))
      [] a.command = "ha-set-ignored-all" -> ha_set_all_command("ignored", r, HaOf(had, r))
      [] a.command = "replication-schedule-now" -> replication_schedule_now(a, r)

----------------------------------------------------------------------------
(* run_on_cluster_resources: which invocations the batch is made of *)

\* lines 611-616: the first resource whose str(vmid) is id, 0 if none
FoundIndex(rs, id) ==
    IF \E i \in 1..Len(rs) : rs[i].vmid # 0 /\ Str(rs[i].vmid) = id
    THEN CHOOSE i \in 1..Len(rs) :
            /\ rs[i].vmid # 0 /\ Str(rs[i].vmid) = id
            /\ \A j \in 1..(i - 1) : ~(rs[j].vmid # 0 /\ Str(rs[j].vmid) = id)
    ELSE 0

\* lines 610-621
RECURSIVE ByIdsDispatch(_, _)
ByIdsDispatch(ids, rs) ==
    IF ids = <<>> THEN <<>>
    ELSE (IF FoundIndex(rs, Head(ids)) = 0 THEN <<>>
          ELSE <<rs[FoundIndex(rs, Head(ids))]>>) \o ByIdsDispatch(Tail(ids), rs)

Dispatched(a, rs) ==
    IF a.sync THEN rs
    ELSE IF a.node THEN rs
    ELSE IF a.ids # <<>> THEN ByIdsDispatch(a.ids, rs)
    ELSE rs

\* an invocation of the action function that has not started yet
Pending(r) == [res |-> r, st |-> "pending", call |-> NoCall, msg |-> "",
               validations |-> 0, outcome |-> ""]

NewTasks(a, rs) == [i \in 1..Len(Dispatched(a, rs)) |-> Pending(Dispatched(a, rs)[i])]

NewHaTasks(a, reps) ==
    [i \in 1..Len(HaDispatched(a, reps)) |-> Pending(HaDispatched(a, reps)[i])]

\* the invocation after its synchronous part ran: suspended in its remote
\* call, or already returned
Started(a, t, had) ==
    LET s == Fn(a, t.res, had) IN
    [t EXCEPT !.st = IF s.raises THEN "raised"
                    ELSE IF s.call = NoCall THEN "done" ELSE "inflight",
              !.call = s.call, !.msg = s.msg, !.validations = s.validations]

\* the invocation left by a KeyboardInterrupt raised in its synchronous part,
\* after the print of its message and before its remote call
CutShort(a, t, had) ==
    LET s == Fn(a, t.res, had) IN
    [t EXCEPT !.st = "cancelled", !.msg = s.msg, !.validations = s.validations]

RECURSIVE IssuedCalls(_)
IssuedCalls(ts) ==
    IF ts = <<>> THEN <<>>
    ELSE (IF Head(ts).call = NoCall THEN <<>> ELSE <<Head(ts).call>>)
         \o IssuedCalls(Tail(ts))


----------------------------------------------------------------------------
(* One invocation of the tool *)

\* raw positional arguments the operator may type: with --node two node
\* names and a string that names no node, without it three ids and a string
\* that is no id
Tokens(node) ==
    IF node THEN {N1, N3, <<"1">>} ELSE {<<"1">>, <<"2">>, <<"1", "0">>, N1}

IdLists(node) == UNION {[1..n -> Tokens(node)] : n \in 0..MaxIds}

\* answers typed at the destroy prompt
Answers == {<<"y">>, <<"Y", "e", "s">>, <<"n">>, <<>>}

NotAsked == [prompted |-> FALSE, answered |-> FALSE, text |-> <<>>]

\* the seconds argument: None, or a number
Absent == [given |-> FALSE, value |-> 0]
Seconds(n) == [given |-> TRUE, value |-> n]

NotCalled == [called |-> FALSE, text |-> <<>>]

\* main() has parsed the command line and nothing else has run
Parsed ==
    /\ pc = "main"
    /\ sigint = FALSE
    /\ raised = "none"
    /\ cluster_resources = <<>>
    /\ resources = <<>>
    /\ vmids = <<>>
    /\ report = NoReport
    /\ cluster_ha = <<>>
    /\ ha_resources = <<>>
    /\ tasks = <<>>
    /\ batch = "none"
    /\ calls = <<>>
    /\ out = {}
    /\ confirm = NotAsked
    /\ fetches = <<>>
    /\ replications = <<>>
    /\ listing = <<>>

\* flags a command never reads keep their argparse default
Init ==
    /\ \E c \in Commands, n \in BOOLEAN, s \in BOOLEAN,
          k \in BOOLEAN, h \in HaStateArgs, nm \in BOOLEAN :
          /\ (c # "destroy" => k = FALSE)
          /\ (c # "ha-set" => h = "started")
          /\ (c \notin {"snapshot", "delsnapshot"} => nm = FALSE)
          /\ \E i \in IdLists(n) :
                args = [command |-> c, node |-> n, sync |-> s, ids |-> i,
                        skip_confirm |-> k, ha_state |-> h, name |-> nm]
    /\ Parsed
    /\ seconds = Absent
    /\ humanized = NotCalled

InFlight(ts) == {i \in 1..Len(ts) : ts[i].st = "inflight"}
PendingTasks(ts) == {i \in 1..Len(ts) : ts[i].st = "pending"}
RaisedTasks(ts) == {i \in 1..Len(ts) : ts[i].st = "raised"}

\* task.cancel() on everything that is suspended in a remote call
Cancelled(ts) ==
    [i \in 1..Len(ts) |->
        IF ts[i].st = "inflight" THEN [ts[i] EXCEPT !.st = "cancelled"] ELSE ts[i]]

\* args2 of main_ha: the ids are the keys of the HA lookup
Args2(had) ==
    [command |-> "none", node |-> FALSE,
     ids |-> [i \in 1..Len(had) |-> had[i].k.repr]]

\* main() is suspended in an await, or its next step is an await that
\* suspends: a fetch, a gather of at least one task, the remote call of the
\* invocation a sync loop is in
AtAwait ==
    \/ pc = "main" /\ args.command \in VmsCommands /\ ResolverFetches(args)
    \/ pc = "main" /\ args.command \in HaAllCommands
    \/ pc = "main" /\ args.command \in ReplicationCommands
          /\ HfBranch(args) \in {"by_node", "all", "by_ids"}
    \/ pc = "ha_fetch"
    \/ pc = "ha_all" /\ ResolverFetches(Args2(ha_resources))
    \/ pc = "repl_fetch" /\ fetches # <<>>
    \/ pc = "batch" /\ batch = "running" /\ ~args.sync /\ tasks # <<>>
    \/ pc = "batch" /\ batch = "running" /\ args.sync /\ InFlight(tasks) # {}

\* a cancellation asked for while main() ran on is delivered at its next
\* await that suspends: nothing else happens there first
Cancelling == sigint /\ AtAwait

\* an exception nothing catches ends main()
Crash(where) ==
    /\ pc' = "crashed"
    /\ raised' = where
    /\ UNCHANGED <<args, humanvars, resolvervars, havars, batchvars, out, confirm, replvars>>

\* the first Ctrl-C can land in the step main() resumes with when the call
\* it awaited has returned: main_task.cancel() is called and the step runs on
LandsIn(awaited) == IF awaited THEN sigint' \in {sigint, TRUE} ELSE sigint' = sigint

\* what a fetch hands to its caller when it does not raise
Fetched(outcome, rows) == IF RunPvesh("get", outcome) = "value" THEN rows ELSE <<>>

\* the call of run_on_cluster_resources up to its first await
StartBatch(rs) ==
    /\ tasks' = NewTasks(args, rs)
    /\ batch' = "running"
    /\ pc' = "batch"
    /\ UNCHANGED <<raised, calls>>

\* main_vms, lines 731-735
VmsResolve ==
    /\ ~Cancelling
    /\ pc = "main"
    /\ args.command \in VmsCommands
    /\ LandsIn(ResolverFetches(args))
    /\ \E outcome \in Outcomes, rows \in ClusterResponses :
          IF ResolverFetches(args) /\ RunPvesh("get", outcome) = "raise"
          THEN Crash("resources_fetch")
          ELSE LET got == IF ResolverFetches(args) THEN Fetched(outcome, rows) ELSE <<>>
                   ret == get_filtered_cluster_resources(args, got)
               IN /\ cluster_resources' = got
                  /\ report' = ret.report
                  /\ resources' = ret.resources
                  /\ vmids' = ret.vmids
                  /\ pc' = IF ~ret.tuple THEN "crashed"
                           ELSE IF ret.resources = <<>> THEN "done"
                           ELSE "resolved"
                  /\ raised' = IF ~ret.tuple THEN "unpack" ELSE raised
                  /\ out' = IF ret.tuple /\ ret.resources = <<>>
                            THEN out \cup {"No resources found"} ELSE out
                  /\ UNCHANGED <<args, humanvars, havars, batchvars, confirm, replvars>>

Finish(line) ==
    /\ pc' = "done"
    /\ out' = out \cup {line}
    /\ UNCHANGED <<raised, batchvars, confirm>>

\* main_vms, lines 737-803, up to the first await of the branch taken
VmsCommand ==
    /\ pc = "resolved"
    /\ CASE args.command = "status" -> Finish("status")
         [] args.command = "destroy" ->
              IF args.ids = <<>> THEN Finish("An ID is required")
              ELSE IF ~args.skip_confirm
              THEN /\ confirm' = [confirm EXCEPT !.prompted = TRUE]
                   /\ pc' = "confirm"
                   /\ UNCHANGED <<raised, batchvars, out>>
              ELSE StartBatch(resources) /\ UNCHANGED <<out, confirm>>
         [] args.command \in {"snapshot", "delsnapshot"} ->
              IF ~args.name THEN Finish("--name argument is required")
              ELSE StartBatch(resources) /\ UNCHANGED <<out, confirm>>
         [] args.command \in {"ha", "ha-set"} ->
              pc' = "ha_fetch" /\ UNCHANGED <<raised, batchvars, out, confirm>>
         [] args.command = "ha-remove" ->
              IF args.ids = <<>> THEN Finish("An ID is required")
              ELSE pc' = "ha_fetch" /\ UNCHANGED <<raised, batchvars, out, confirm>>
         [] OTHER -> StartBatch(resources) /\ UNCHANGED <<out, confirm>>
    /\ UNCHANGED <<args, humanvars, sigint, resolvervars, havars, replvars>>

Yes == {<<"y">>, <<"y", "e", "s">>}

\* Confirm with a fault: the answer is read and not looked at
Confirm_AnyAnswer ==
    /\ pc = "confirm"
    /\ \E answer \in Answers :
          /\ confirm' = [confirm EXCEPT !.answered = TRUE, !.text = answer]
          /\ StartBatch(resources) /\ UNCHANGED out
    /\ UNCHANGED <<args, humanvars, sigint, resolvervars, havars, replvars>>

\* main_vms, lines 752-757: the operator answers the prompt
Confirm ==
    /\ pc = "confirm"
    /\ \E answer \in Answers :
          /\ confirm' = [confirm EXCEPT !.answered = TRUE, !.text = answer]
          /\ IF Lower(answer) \in Yes
             THEN StartBatch(resources) /\ UNCHANGED out
             ELSE /\ pc' = "done"
                  /\ out' = out \cup {"Cancelled destroying resources"}
                  /\ UNCHANGED <<raised, batchvars>>
    /\ UNCHANGED <<args, humanvars, sigint, resolvervars, havars, replvars>>

\* main_vms, lines 775, 783, 795: the HA join, then the dispatch
HaFetch ==
    /\ ~Cancelling
    /\ pc = "ha_fetch"
    /\ LandsIn(TRUE)
    /\ \E outcome \in Outcomes, rows \in HaResponses :
          IF RunPvesh("get", outcome) = "raise"
          THEN Crash("ha_fetch")
          ELSE /\ cluster_ha' = Fetched(outcome, rows)
               /\ ha_resources' =
                     get_filtered_cluster_ha_resources(vmids, Fetched(outcome, rows))
               /\ StartBatch(resources)
               /\ UNCHANGED <<args, humanvars, resolvervars, out, confirm, replvars>>

\* main_ha, line 707
MainHaFetch ==
    /\ ~Cancelling
    /\ pc = "main"
    /\ args.command \in HaAllCommands
    /\ LandsIn(TRUE)
    /\ \E outcome \in Outcomes, rows \in HaResponses :
          IF RunPvesh("get", outcome) = "raise"
          THEN Crash("ha_fetch")
          ELSE /\ cluster_ha' = Fetched(outcome, rows)
               /\ ha_resources' = get_cluster_ha_resources(Fetched(outcome, rows))
               /\ pc' = "ha_all"
               /\ UNCHANGED <<args, humanvars, raised, resolvervars, batchvars, out, confirm,
                              replvars>>

\* main_ha, lines 708-727
MainHaResolve ==
    /\ ~Cancelling
    /\ pc = "ha_all"
    /\ LandsIn(ResolverFetches(Args2(ha_resources)))
    /\ \E outcome \in Outcomes, rows \in ClusterResponses :
          IF ResolverFetches(Args2(ha_resources)) /\ RunPvesh("get", outcome) = "raise"
          THEN Crash("resources_fetch")
          ELSE LET got == IF ResolverFetches(Args2(ha_resources))
                          THEN Fetched(outcome, rows) ELSE <<>>
                   ret == get_filtered_cluster_resources(Args2(ha_resources), got)
               IN /\ cluster_resources' = got
                  /\ report' = ret.report
                  /\ resources' = ret.resources
                  /\ StartBatch(ret.resources)
                  /\ UNCHANGED <<args, humanvars, vmids, havars, out, confirm, replvars>>

----------------------------------------------------------------------------
(* main_replications *)

FetchesDone == \A i \in 1..Len(fetches) : fetches[i].st = "done"

\* get_filtered_high_fidelity_cluster_replications up to the gather of line
\* 132: the first fetch (/nodes or /cluster/replication) and the fan-out
ReplResolve ==
    /\ ~Cancelling
    /\ pc = "main"
    /\ args.command \in ReplicationCommands
    /\ LandsIn(HfBranch(args) \in {"by_node", "all", "by_ids"})
    /\ \E outcome \in Outcomes, names \in NodesResponses,
          reps \in ClusterReplicationResponses :
          IF HfBranch(args) \in {"by_node", "all", "by_ids"}
             /\ RunPvesh("get", outcome) = "raise"
          THEN Crash("first_fetch")
          ELSE LET rows == IF HfBranch(args) = "by_ids" THEN reps ELSE names
                   plan == HfPlan(args, Fetched(outcome, rows))
               IN /\ report' = IF HfBranch(args) = "missing_node_ids"
                               THEN [kind |-> "missing_node_ids", missing |-> <<>>]
                               ELSE plan.report
                  /\ fetches' = [i \in 1..Len(plan.nodes) |->
                                    [node |-> plan.nodes[i], st |-> "pending", rows |-> <<>>]]
                  /\ pc' = "repl_fetch"
                  /\ UNCHANGED <<args, humanvars, raised, cluster_resources, resources, vmids, havars,
                                 batchvars, out, confirm, replications, listing>>

\* line 132: asyncio.gather starts every fetch, in list order
FetchGather ==
    /\ ~Cancelling
    /\ pc = "repl_fetch"
    /\ fetches # <<>>
    /\ \A i \in 1..Len(fetches) : fetches[i].st = "pending"
    /\ fetches' = [i \in 1..Len(fetches) |-> [fetches[i] EXCEPT !.st = "inflight"]]
    /\ UNCHANGED <<args, humanvars, sigint, pc, raised, resolvervars, havars, batchvars, out,
                   confirm, replications, listing>>

\* one fetch of /nodes/{node}/replication/ ends, in its own task: by its
\* return or by a raise that the gather of line 132 has yet to pass on; a
\* fetch still running when main() has raised can end until asyncio.run
\* cancels it
NodeFetchComplete(i) ==
    /\ ~Cancelling
    /\ pc \in {"repl_fetch", "crashed"}
    /\ i \in InFlight(fetches)
    /\ \E outcome \in Outcomes, rows \in NodeReplicationResponses(fetches[i].node) :
          fetches' = IF RunPvesh("get", outcome) = "raise"
                     THEN [fetches EXCEPT ![i].st = "raised"]
                     ELSE [fetches EXCEPT ![i].st = "done",
                                          ![i].rows = Fetched(outcome, rows)]
    /\ UNCHANGED <<args, humanvars, sigint, pc, raised, resolvervars, havars, batchvars, out,
                   confirm, replications, listing>>

\* a gather is about to pass the raise of one of its tasks on to main():
\* either no Ctrl-C has landed since that task resumed, or one has, which
\* cancelled the tasks still suspended but not main(), whose cancellation
\* the exception overrides
LostCtrlC(ts, after) ==
    \/ after = ts /\ sigint' = sigint
    \/ after = Cancelled(ts) /\ sigint' = TRUE

\* the gather of line 132 passes the raise of a fetch on to main(), which
\* nothing catches
FetchRaise ==
    /\ ~Cancelling
    /\ pc = "repl_fetch"
    /\ RaisedTasks(fetches) # {}
    /\ pc' = "crashed"
    /\ raised' = "node_fetch"
    /\ LostCtrlC(fetches, fetches')
    /\ UNCHANGED <<args, humanvars, resolvervars, havars, batchvars, out, confirm,
                   replications, listing>>

\* the gather of line 132 returned: lines 133-151, 236-239, then main_replications
ReplDispatch ==
    /\ pc = "repl_fetch"
    /\ FetchesDone
    /\ LET reps == HfFilter(args, Aggregate([i \in 1..Len(fetches) |-> fetches[i].rows]))
       IN IF args.command = "replications"
          THEN /\ replications' = reps
               /\ listing' = replications_command(reps)
               /\ pc' = "done"
               /\ UNCHANGED <<raised, tasks, batch>>
          ELSE IF HfBranch(args) = "none" /\ args.sync
          THEN \* for resource in None
               /\ pc' = "crashed"
               /\ raised' = "iterate_none"
               /\ UNCHANGED <<tasks, batch, replications, listing>>
          ELSE /\ replications' = reps
               /\ tasks' = NewHaTasks(args, reps)
               /\ batch' = "running"
               /\ pc' = "batch"
               /\ UNCHANGED <<raised, listing>>
    /\ UNCHANGED <<args, humanvars, sigint, resolvervars, havars, calls, out, confirm, fetches>>

----------------------------------------------------------------------------
(* The batch *)

\* line 625 (line 651): asyncio.gather starts every invocation, in list
\* order, and each runs up to its remote call
Gather ==
    /\ ~Cancelling
    /\ pc = "batch" /\ batch = "running"
    /\ ~args.sync
    /\ tasks # <<>>
    /\ \A i \in 1..Len(tasks) : tasks[i].st = "pending"
    /\ tasks' = [i \in 1..Len(tasks) |-> Started(args, tasks[i], ha_resources)]
    /\ calls' = calls \o IssuedCalls(tasks')
    /\ UNCHANGED <<args, humanvars, sigint, pc, raised, resolvervars, havars, batch, out, confirm, replvars>>

\* SyncStart with a fault: the loop starts the next invocation without
\* awaiting the last
SyncStart_NoAwait ==
    /\ pc = "batch" /\ batch = "running"
    /\ args.sync
    /\ PendingTasks(tasks) # {}
    /\ LET i == CHOOSE j \in PendingTasks(tasks) : \A k \in PendingTasks(tasks) : j <= k
       IN /\ tasks' = [tasks EXCEPT ![i] = Started(args, tasks[i], ha_resources)]
          /\ calls' = calls \o IssuedCalls(<<tasks'[i]>>)
          /\ IF tasks'[i].st = "raised"
             THEN batch' = "raised" /\ pc' = "crashed" /\ raised' = "action"
             ELSE UNCHANGED <<batch, pc, raised>>
    /\ UNCHANGED <<args, humanvars, sigint, resolvervars, havars, out, confirm, replvars>>

\* lines 601-602 (630-631): the loop awaits the next invocation, which runs
\* in main()'s own task: a raise of it leaves the loop and main() at once
SyncStart ==
    /\ pc = "batch" /\ batch = "running"
    /\ args.sync
    /\ InFlight(tasks) = {}
    /\ PendingTasks(tasks) # {}
    /\ LET i == CHOOSE j \in PendingTasks(tasks) : \A k \in PendingTasks(tasks) : j <= k
       IN /\ tasks' = [tasks EXCEPT ![i] = Started(args, tasks[i], ha_resources)]
          /\ calls' = calls \o IssuedCalls(<<tasks'[i]>>)
          /\ IF tasks'[i].st = "raised"
             THEN batch' = "raised" /\ pc' = "crashed" /\ raised' = "action"
             ELSE UNCHANGED <<batch, pc, raised>>
    /\ UNCHANGED <<args, humanvars, sigint, resolvervars, havars, out, confirm, replvars>>

\* the remote call of invocation i ends: by its return, recorded with what
\* the subprocess ended with, or by a raise. In sync mode the invocation
\* runs in main()'s own task and a raise leaves the loop and main() at once;
\* in concurrent mode it is a task of its own: its raise is passed on by the
\* gather later (BatchRaise), and one still running when main() has raised
\* can end until asyncio.run cancels it
Complete(i) ==
    /\ ~Cancelling
    /\ \/ pc = "batch" /\ batch = "running"
       \/ pc = "crashed"
    /\ i \in InFlight(tasks)
    /\ LandsIn(args.sync /\ pc = "batch")
    /\ \E outcome \in Outcomes :
          IF RunPvesh(tasks[i].call.verb, outcome) = "raise"
          THEN /\ tasks' = [tasks EXCEPT ![i].st = "raised", ![i].outcome = "raise"]
               /\ IF args.sync
                  THEN batch' = "raised" /\ pc' = "crashed" /\ raised' = "action"
                  ELSE UNCHANGED <<batch, pc, raised>>
          ELSE /\ tasks' = [tasks EXCEPT ![i].st = "done", ![i].outcome = outcome]
               /\ UNCHANGED <<batch, pc, raised>>
    /\ UNCHANGED <<args, humanvars, resolvervars, havars, calls, out, confirm, replvars>>

\* line 625 (651): the gather passes the raise of an invocation on to main(),
\* which nothing catches
BatchRaise ==
    /\ ~Cancelling
    /\ pc = "batch" /\ batch = "running"
    /\ ~args.sync
    /\ RaisedTasks(tasks) # {}
    /\ batch' = "raised"
    /\ pc' = "crashed"
    /\ raised' = "action"
    /\ LostCtrlC(tasks, tasks')
    /\ UNCHANGED <<args, humanvars, resolvervars, havars, calls, out, confirm, replvars>>

\* line 603 / line 625 (632 / 651) returning: nothing is left to await
BatchReturn ==
    /\ pc = "batch" /\ batch = "running"
    /\ \A i \in 1..Len(tasks) : tasks[i].st = "done"
    /\ batch' = "returned"
    /\ pc' = "done"
    /\ UNCHANGED <<args, humanvars, sigint, raised, resolvervars, havars, tasks, calls, out, confirm, replvars>>

\* line 868: asyncio.run cancels what is still running when main() raised
CancelAll ==
    /\ pc = "crashed"
    /\ (InFlight(tasks) # {} \/ InFlight(fetches) # {})
    /\ tasks' = Cancelled(tasks)
    /\ fetches' = Cancelled(fetches)
    /\ UNCHANGED <<args, humanvars, sigint, pc, raised, resolvervars, havars, batch, calls, out, confirm,
                   replications, listing>>

\* where main() can be while it runs
Running == {"main", "resolved", "confirm", "ha_fetch", "ha_all", "repl_fetch", "batch"}

\* lines 869-871: KeyboardInterrupt leaves asyncio.run, which has cancelled
\* what was still suspended; the message is printed, exit status 1
Exit ==
    /\ pc' = "interrupted"
    /\ sigint' = FALSE
    /\ batch' = IF batch = "running" THEN "cancelled" ELSE batch
    /\ out' = out \cup {"Interrupted by user. Exiting..."}
    /\ UNCHANGED <<args, humanvars, raised, havars, confirm>>

Interrupted == Exit /\ UNCHANGED <<resolvervars, replications, listing>>

\* Ctrl-C that ends the run where it is: while main() is suspended in an
\* await (its cancellation is delivered there), a second Ctrl-C anywhere,
\* or one after main() has ended and before asyncio.run has returned
Interrupt ==
    /\ pc \in Running \cup {"done", "crashed"}
    /\ tasks' = Cancelled(tasks)
    /\ fetches' = Cancelled(fetches)
    /\ UNCHANGED calls
    /\ Interrupted

\* the first Ctrl-C while main() runs between two awaits, or is blocked in
\* input(): only main_task.cancel() is called, main() runs on
CtrlC ==
    /\ pc \in Running
    /\ ~AtAwait
    /\ ~sigint
    /\ sigint' = TRUE
    /\ UNCHANGED <<args, humanvars, pc, raised, resolvervars, havars, batchvars, out,
                   confirm, replvars>>

\* the cancellation asked for is delivered: at the next await of main() that
\* suspends, or, when main() returned without one, at its return
Deliver ==
    /\ sigint
    /\ AtAwait \/ pc = "done"
    /\ tasks' = Cancelled(tasks)
    /\ fetches' = Cancelled(fetches)
    /\ UNCHANGED calls
    /\ Interrupted

\* Ctrl-C between the starts of two invocations of the gather of line 625
\* (651): the first k have run up to their remote call and are cancelled
\* there, the others never start. When one of the first k raised, gather
\* passes its exception on to main() and the cancellation is lost, unless a
\* second Ctrl-C follows. With two Ctrl-C inside the start of the k-th, the
\* second leaves it after the print of its message (cut).
InterruptGather(k) ==
    /\ pc = "batch" /\ batch = "running"
    /\ ~args.sync
    /\ ~sigint
    /\ k \in 1..Len(tasks)
    /\ \A i \in 1..Len(tasks) : tasks[i].st = "pending"
    /\ \E cut \in BOOLEAN :
          LET begun == [i \in 1..Len(tasks) |->
                           IF i < k \/ (i = k /\ ~cut)
                           THEN Started(args, tasks[i], ha_resources)
                           ELSE IF i = k THEN CutShort(args, tasks[i], ha_resources)
                           ELSE tasks[i]]
          IN /\ cut => begun[k].msg # ""
             /\ tasks' = Cancelled(begun)
             /\ calls' = calls \o IssuedCalls(begun)
             /\ UNCHANGED fetches
             /\ \/ Interrupted
                \/ /\ ~cut
                   /\ RaisedTasks(begun) # {}
                   /\ batch' = "raised"
                   /\ pc' = "crashed"
                   /\ raised' = "action"
                   /\ sigint' = TRUE
                   /\ UNCHANGED <<args, humanvars, resolvervars, havars, out, confirm,
                                  replications, listing>>

\* lines 601-602 (630-631) with a Ctrl-C pending: a second one raises
\* KeyboardInterrupt in the synchronous part of the next invocation, after
\* the print of its message and before its remote call
InterruptStart ==
    /\ sigint
    /\ pc = "batch" /\ batch = "running"
    /\ args.sync
    /\ InFlight(tasks) = {}
    /\ PendingTasks(tasks) # {}
    /\ LET i == CHOOSE j \in PendingTasks(tasks) : \A k \in PendingTasks(tasks) : j <= k
       IN /\ Fn(args, tasks[i].res, ha_resources).msg # ""
          /\ tasks' = [tasks EXCEPT ![i] = CutShort(args, tasks[i], ha_resources)]
    /\ UNCHANGED <<calls, fetches>>
    /\ Interrupted

\* the selector the resolver of main_vms or main_ha is called with
ResolverArgs == IF pc = "ha_all" THEN Args2(ha_resources) ELSE args

\* lines 63, 85-87, 105-107: KeyboardInterrupt inside the resolver while it
\* prints its report: the header and the first n lines are out, the resolver
\* has not returned. The first Ctrl-C was pending, or landed in the step the
\* resolver resumed with after its fetch
InterruptReport ==
    /\ \/ pc = "main" /\ args.command \in VmsCommands
       \/ pc = "ha_all"
    /\ sigint # ResolverFetches(ResolverArgs)
    /\ \E outcome \in Outcomes, rows \in ClusterResponses :
          /\ ~(ResolverFetches(ResolverArgs) /\ RunPvesh("get", outcome) = "raise")
          /\ LET got == IF ResolverFetches(ResolverArgs) THEN Fetched(outcome, rows) ELSE <<>>
                 ret == get_filtered_cluster_resources(ResolverArgs, got)
             IN /\ ret.report.kind # "none"
                /\ cluster_resources' = got
                /\ \E n \in 0..Len(ret.report.missing) :
                      report' = [ret.report EXCEPT !.missing = SubSeq(@, 1, n)]
    /\ UNCHANGED <<resources, vmids, tasks, calls, replvars>>
    /\ Exit

\* lines 179, 201-203, 229-231: the same inside the resolver of
\* main_replications
InterruptPlanReport ==
    /\ pc = "main"
    /\ args.command \in ReplicationCommands
    /\ sigint # (HfBranch(args) \in {"by_node", "all", "by_ids"})
    /\ \E outcome \in Outcomes, names \in NodesResponses,
          reps \in ClusterReplicationResponses :
          /\ ~(HfBranch(args) \in {"by_node", "all", "by_ids"}
                /\ RunPvesh("get", outcome) = "raise")
          /\ LET rows == IF HfBranch(args) = "by_ids" THEN reps ELSE names
                 plan == HfPlan(args, Fetched(outcome, rows))
                 full == IF HfBranch(args) = "missing_node_ids"
                         THEN [kind |-> "missing_node_ids", missing |-> <<>>]
                         ELSE plan.report
             IN /\ full.kind # "none"
                /\ \E n \in 0..Len(full.missing) :
                      report' = [full EXCEPT !.missing = SubSeq(@, 1, n)]
    /\ UNCHANGED <<cluster_resources, resources, vmids, tasks, calls, replvars>>
    /\ Exit

\* line 679: KeyboardInterrupt inside replications_command while it prints:
\* the first n lines are out
InterruptListing ==
    /\ pc = "repl_fetch"
    /\ FetchesDone
    /\ args.command = "replications"
    /\ sigint # (fetches # <<>>)
    /\ LET reps == HfFilter(args, Aggregate([i \in 1..Len(fetches) |-> fetches[i].rows]))
       IN /\ reps # <<>>
          /\ replications' = reps
          /\ \E n \in 0..(Len(reps) - 1) :
                listing' = SubSeq(replications_command(reps), 1, n)
    /\ UNCHANGED <<resolvervars, tasks, calls, fetches>>
    /\ Exit

\* a Ctrl-C after main() has ended by an exception and before its loop has
\* stopped, with a task of a gather not yet through: KeyboardInterrupt
\* leaves asyncio.run, whose close() then fails with RuntimeError (event
\* loop stopped before future completed): traceback, and the message of
\* line 870 is not printed
LoopStopped ==
    /\ pc = "crashed"
    /\ raised # "loop_stopped"
    /\ \/ \E i \in 1..Len(tasks) : ~args.sync /\ tasks[i].st \in {"inflight", "cancelled"}
       \/ \E i \in 1..Len(fetches) : fetches[i].st \in {"inflight", "cancelled"}
    /\ raised' = "loop_stopped"
    /\ sigint' = TRUE
    /\ tasks' = Cancelled(tasks)
    /\ fetches' = Cancelled(fetches)
    /\ UNCHANGED <<args, humanvars, pc, resolvervars, havars, batch, calls, out, confirm,
                   replications, listing>>

\* the same between the starts of two fetches of the gather of line 132
InterruptFetchGather(k) ==
    /\ pc = "repl_fetch"
    /\ ~sigint
    /\ k \in 1..Len(fetches)
    /\ \A i \in 1..Len(fetches) : fetches[i].st = "pending"
    /\ fetches' = [i \in 1..Len(fetches) |->
                      IF i <= k THEN [fetches[i] EXCEPT !.st = "cancelled"] ELSE fetches[i]]
    /\ UNCHANGED <<tasks, calls>>
    /\ Interrupted

Next ==
    \/ VmsResolve
    \/ VmsCommand
    \/ Confirm
    \/ HaFetch
    \/ MainHaFetch
    \/ MainHaResolve
    \/ ReplResolve
    \/ FetchGather
    \/ \E i \in 1..Len(fetches) : NodeFetchComplete(i)
    \/ FetchRaise
    \/ ReplDispatch
    \/ Gather
    \/ SyncStart
    \/ \E i \in 1..Len(tasks) : Complete(i)
    \/ BatchReturn
    \/ BatchRaise
    \/ CancelAll
    \/ Interrupt
    \/ CtrlC
    \/ Deliver
    \/ \E k \in 1..Len(tasks) : InterruptGather(k)
    \/ InterruptStart
    \/ InterruptReport
    \/ InterruptPlanReport
    \/ InterruptListing
    \/ LoopStopped
    \/ \E k \in 1..Len(fetches) : InterruptFetchGather(k)

Spec == Init /\ [][Next]_vars

----------------------------------------------------------------------------
(* humanize_seconds *)

\* f"{a}{u}"
Unit(a, u) == Str(a) \o <<u>>

\* lines 333-346; math.floor of an int is that int
humanize_seconds(s) ==
    IF ~s.given \/ s.value = 0 THEN <<>>
    ELSE LET minutes0 == s.value \div 60
             secs == s.value % 60
             hours0 == minutes0 \div 60
             minutes == minutes0 % 60
         IN IF hours0 > 24
            THEN Unit(hours0 \div 24, "d") \o <<" ">> \o Unit(hours0 % 24, "h")
                 \o <<" ">> \o Unit(minutes, "m")
            ELSE IF hours0 > 0 THEN Unit(hours0, "h") \o <<" ">> \o Unit(minutes, "m")
            ELSE IF minutes > 0 THEN Unit(minutes, "m") \o <<" ">> \o Unit(secs, "s")
            ELSE Unit(secs, "s")

\* the values a caller hands over: an uptime, a duration, a time since
SecondsInputs == {Absent} \cup {Seconds(n) : n \in 0..MaxSeconds}

\* a call of humanize_seconds from format_status or replications_command
HumanizeInit ==
    /\ args = [command |-> "replications", node |-> FALSE, sync |-> FALSE, ids |-> <<>>,
               skip_confirm |-> FALSE, ha_state |-> "started", name |-> FALSE]
    /\ Parsed
    /\ seconds \in SecondsInputs
    /\ humanized = NotCalled

Humanize ==
    /\ ~humanized.called
    /\ humanized' = [called |-> TRUE, text |-> humanize_seconds(seconds)]
    /\ UNCHANGED <<args, pc, raised, resolvervars, havars, batchvars, out, confirm,
                   replvars, seconds, sigint>>

HumanizeNext == Humanize

HumanizeSpec == HumanizeInit /\ [][HumanizeNext]_vars


----------------------------------------------------------------------------
(* Properties *)

Ended == batch \in {"returned", "raised"}

\* C1: whatever the remote call of one resource's action ends with, the
\* action of every other resource of the batch is still attempted: once the
\* batch call has ended, no invocation of the batch is left unstarted.
C1_FailureIsolation ==
    Ended => \A i \in 1..Len(tasks) : tasks[i].st # "pending"

\* C2: in concurrent mode the batch call is a barrier: it has not returned
\* or raised while an action it launched is still in flight.
C2_Barrier ==
    (~args.sync /\ Ended) => InFlight(tasks) = {}

\* the list the batch was given
BatchInput == IF args.command \in ReplicationCommands THEN replications ELSE resources

\* C3: in sync mode the resources are processed one at a time in resolver
\* order: at most one action is in flight, and an action has started only
\* when every earlier one has returned.
C3_SyncSequential ==
    (args.sync /\ batch # "none") =>
        /\ Cardinality(InFlight(tasks)) <= 1
        /\ [i \in 1..Len(tasks) |-> tasks[i].res] = BatchInput
        /\ \A i, j \in 1..Len(tasks) :
              (i < j /\ tasks[j].st # "pending") => tasks[i].st = "done"

\* the second of three actions is in flight after the first one's remote
\* call failed, and the third has not started
C3_Witness ==
    /\ args.sync
    /\ Len(tasks) = 3
    /\ tasks[1].st = "done" /\ tasks[1].outcome = "nonzero"
    /\ tasks[2].st = "inflight"
    /\ tasks[3].st = "pending"

EmptySelector == ~args.node /\ args.ids = <<>>
SafeToBroadcast == {"status", "listsnapshot", "ha", "replications"}
StateChanging(c) == c.verb \in {"create", "set", "delete"}
NoStateChange == \A i \in 1..Len(calls) : ~StateChanging(calls[i])

Deletes == {i \in 1..Len(calls) : calls[i].verb = "delete"}
SaidYes == confirm.answered /\ Lower(confirm.text) \in Yes

\* C5: destroy issues a remote delete only for a non-empty resolved set and
\* after --skip-confirm or a y/yes answer (read case-insensitively); an empty
\* resolved set shows no prompt; a declined prompt leaves no remote call.
C5_DestroyGating ==
    args.command = "destroy" =>
        /\ Deletes # {} => (resources # <<>> /\ (args.skip_confirm \/ SaidYes))
        /\ resources = <<>> => (~confirm.prompted /\ Deletes = {})
        /\ (confirm.answered /\ ~SaidYes) => calls = <<>>

\* the operator declined the destroy of two resources
C5_Witness ==
    /\ args.command = "destroy"
    /\ Len(resources) = 2
    /\ confirm.answered /\ ~SaidYes
    /\ pc = "done"

\* main_vms has its resolver's result (an interrupt changes nothing of it)
ResolvedVms ==
    /\ args.command \in VmsCommands
    /\ pc \notin {"main", "interrupted"}
    /\ raised \notin {"resources_fetch", "unpack"}

\* the distinct elements of a list, in order of first appearance
RECURSIVE FirstAppearances(_, _)
FirstAppearances(ids, seen) ==
    IF ids = <<>> THEN <<>>
    ELSE IF Head(ids) \in seen THEN FirstAppearances(Tail(ids), seen)
    ELSE <<Head(ids)>> \o FirstAppearances(Tail(ids), seen \cup {Head(ids)})

\* id names a guest of the fetched collection
Live(id) ==
    \E j \in 1..Len(cluster_resources) :
       /\ cluster_resources[j].type \in ComputeTypes
       /\ Str(cluster_resources[j].vmid) = id

\* C6: under ByIds the resolved set is the fetched guests whose stringified
\* vmid was asked for, in fetch order; the presence map has one entry per
\* distinct id; the missing report is the distinct ids naming no guest, in
\* order of first appearance.
C6_ByIdsResolution ==
    (ResolvedVms /\ ~args.node /\ args.ids # <<>>) =>
        /\ resources = SelectSeq(cluster_resources,
                          LAMBDA r : r.type \in ComputeTypes
                                     /\ \E i \in 1..Len(args.ids) : args.ids[i] = Str(r.vmid))
        /\ [i \in 1..Len(vmids) |-> vmids[i].k] = PyStrs(FirstAppearances(args.ids, {}))
        /\ \A i \in 1..Len(vmids) : vmids[i].v = Live(vmids[i].k.repr)
        /\ report.missing = SelectSeq(FirstAppearances(args.ids, {}), LAMBDA id : ~Live(id))
        /\ (report.kind = "vms") = (report.missing # <<>>)

\* two different ids were asked for, one names a guest and one does not
C6_Witness ==
    /\ ResolvedVms /\ ~args.node
    /\ Len(args.ids) = 2 /\ args.ids[1] # args.ids[2]
    /\ Len(resources) = 1
    /\ Len(report.missing) = 1

\* the fetched collection lists node n
NodeExists(n) ==
    \E j \in 1..Len(cluster_resources) :
       cluster_resources[j].type = "node" /\ cluster_resources[j].node = n

\* C7: under ByNode a requested node the cluster has, owning no guest, is
\* not reported the way a node the cluster does not have is: it is not in
\* the "Nodes do not exist" list.
C7_ZeroResultDistinct ==
    (ResolvedVms /\ args.node /\ args.ids # <<>>) =>
        \A i \in 1..Len(report.missing) : ~NodeExists(report.missing[i])

\* the fetched HA records whose sid, prefix stripped, is the vmid of r
HaRecords(r) ==
    {j \in 1..Len(cluster_ha) :
        cluster_ha[j].hassid /\ StripPrefix(cluster_ha[j].sid) = Str(r.vmid)}

\* C8: the HA lookup of ha / ha-set / ha-remove maps every selected resource
\* to its HA record when the cluster has one and to absent only when it has
\* none, and holds no record of a guest that was fetched and not selected.
C8_HaJoin ==
    (args.command \in {"ha", "ha-set", "ha-remove"} /\ batch # "none") =>
        /\ \A i \in 1..Len(resources) :
              IF HaRecords(resources[i]) = {}
              THEN HaOf(ha_resources, resources[i]) = NoHa
              ELSE \E j \in HaRecords(resources[i]) :
                      HaOf(ha_resources, resources[i]) = cluster_ha[j]
        /\ \A k \in 1..Len(ha_resources), j \in 1..Len(cluster_resources) :
              (/\ cluster_resources[j].type \in ComputeTypes
               /\ ha_resources[k].k.repr = Str(cluster_resources[j].vmid))
                 => \E i \in 1..Len(resources) : resources[i] = cluster_resources[j]

\* C9: ha-set writes nothing for a resource whose HA record already holds
\* the requested state and says "already"; it creates only when the cluster
\* has no record and sets only when the record holds another state.
C9_HaSetIdempotent ==
    args.command = "ha-set" =>
        \A i \in 1..Len(tasks) :
           tasks[i].st # "pending" =>
              /\ (\E j \in HaRecords(tasks[i].res) : cluster_ha[j].state = args.ha_state)
                    => (tasks[i].call = NoCall /\ tasks[i].msg = "already")
              /\ tasks[i].call.verb = "create" => HaRecords(tasks[i].res) = {}
              /\ tasks[i].call.verb = "set" =>
                    \E j \in HaRecords(tasks[i].res) : cluster_ha[j].state # args.ha_state

\* the pairs the validator is to reject
Rejects(status, action) ==
    \/ status = "stopped" /\ action \in {"stop", "shutdown"}
    \/ status = "running" /\ action = "start"

\* how often the validator has run for resource r
RECURSIVE ValidationsOf(_, _)
ValidationsOf(r, ts) ==
    IF ts = <<>> THEN 0
    ELSE (IF Head(ts).res = r THEN Head(ts).validations ELSE 0) + ValidationsOf(r, Tail(ts))

\* C10: in a lifecycle batch the validator runs before the remote call of a
\* resource; exactly the pairs of Rejects are rejected; a rejected resource
\* gets no remote call; and once the batch call has ended the validator has
\* run once for every resource of the batch and every resource that was not
\* rejected has been dispatched.
C10_PreconditionGate ==
    args.command \in LifecycleCommands =>
        /\ \A i \in 1..Len(tasks) :
              tasks[i].st # "pending" =>
                 /\ tasks[i].validations = 1
                 /\ IF Rejects(tasks[i].res.status, args.command)
                    THEN /\ tasks[i].call = NoCall
                         /\ tasks[i].msg = "rejected"
                         /\ \A k \in 1..Len(calls) : calls[k].target # Str(tasks[i].res.vmid)
                    ELSE /\ tasks[i].call = Call("create", args.command, Str(tasks[i].res.vmid))
                         /\ \E k \in 1..Len(calls) : calls[k] = tasks[i].call
        /\ Ended =>
              \A j \in 1..Len(resources) :
                 /\ ValidationsOf(resources[j], tasks) = 1
                 /\ ~Rejects(resources[j].status, args.command) =>
                       \E k \in 1..Len(calls) :
                          calls[k] = Call("create", args.command, Str(resources[j].vmid))

\* the mixed-radix digits of a number of seconds
Days(n) == n \div 86400
HoursOfDay(n) == (n % 86400) \div 3600
MinutesOfHour(n) == (n % 3600) \div 60
SecondsOfMinute(n) == n % 60

\* the rendering C11 states for a number of seconds n
Rendering(n) ==
    CASE n = 0 -> <<>>
      [] n >= 86400 -> Str(Days(n)) \o <<"d", " ">> \o Str(HoursOfDay(n)) \o <<"h", " ">>
                       \o Str(MinutesOfHour(n)) \o <<"m">>
      [] n >= 3600 /\ n < 86400 ->
            Str(n \div 3600) \o <<"h", " ">> \o Str(MinutesOfHour(n)) \o <<"m">>
      [] n >= 60 /\ n < 3600 ->
            Str(n \div 60) \o <<"m", " ">> \o Str(SecondsOfMinute(n)) \o <<"s">>
      [] OTHER -> Str(n) \o <<"s">>

\* C11: humanize_seconds returns "" for 0 or an absent value, and for a
\* positive number of seconds the days form from 86400 on, the hours form
\* from 3600, the minutes form from 60 and the seconds form below, with the
\* mixed-radix digits of the number.
C11_HumanizerThresholds ==
    humanized.called =>
        humanized.text = IF seconds.given THEN Rendering(seconds.value) ELSE <<>>

\* main_replications has the records of the high-fidelity fetch
ReplResolved ==
    /\ args.command \in ReplicationCommands
    /\ (pc = "done" \/ batch # "none")

\* how often x occurs in a list
Count(x, seq) == Cardinality({i \in 1..Len(seq) : seq[i] = x})

\* the records the per-node fetches answered with
FetchedJobs == Flatten([i \in 1..Len(fetches) |-> fetches[i].rows])

\* under ByIds the records of guests that were not asked for are dropped
\* after the aggregation
Kept(x) ==
    (~args.node /\ args.ids # <<>>) => \E i \in 1..Len(args.ids) : args.ids[i] = Str(x.guest)

\* C12: the records of the high-fidelity fetch are every record the per-node
\* fetches answered with, each as often as it was fetched, ordered by guest
\* id ascending (as numbers) and, for one guest, by target node name
\* ascending, whatever the order the fetches ended or listed their records in.
C12_AggregationOrder ==
    ReplResolved =>
        /\ \A i \in 1..Len(FetchedJobs) :
              Count(FetchedJobs[i], replications) =
                 IF Kept(FetchedJobs[i]) THEN Count(FetchedJobs[i], FetchedJobs) ELSE 0
        /\ \A i \in 1..Len(replications) : Count(replications[i], FetchedJobs) > 0
        /\ \A i, j \in 1..Len(replications) :
              i < j =>
                 \/ replications[i].guest < replications[j].guest
                 \/ /\ replications[i].guest = replications[j].guest
                    /\ ~StrLess(replications[j].target, replications[i].target)

\* the listing of all replications: node n2 was fetched first and answered
\* guest 10, node n1 listed guest 2 before guest 1 and target n3 before n2
C12_Witness ==
    /\ args.command = "replications" /\ pc = "done"
    /\ Len(fetches) >= 2 /\ fetches[1].node = N2 /\ fetches[2].node = N1
    /\ fetches[2].rows # <<>> /\ fetches[2].rows[1].target = N3
    /\ [i \in 1..Len(replications) |-> replications[i].id] =
          << <<"1", "-", "0">>, <<"2", "-", "0">>, <<"2", "-", "1">>, <<"1", "0", "-", "0">> >>

\* the fetched records the selector asks for
SelectedJobs == {i \in 1..Len(FetchedJobs) : Kept(FetchedJobs[i])}

\* the remote calls that trigger job x
Triggers(x) == {k \in 1..Len(calls) : calls[k].api = "schedule_now" /\ calls[k].target = x.id}

\* C13: replication-schedule-now issues no schedule_now call for a job whose
\* disable flag is set, in either mode and under any selector; every selected
\* job is handed to the action, and once the batch call has ended every
\* selected job that is not disabled has its schedule_now call; the
\* replications listing has a line for every selected record, marked
\* "(disabled)" exactly when the flag is set.
C13_DisabledJobs ==
    /\ args.command = "replication-schedule-now" =>
          /\ \A i \in 1..Len(FetchedJobs) :
                FetchedJobs[i].disable = 1 => Triggers(FetchedJobs[i]) = {}
          /\ \A k \in 1..Len(calls) :
                /\ calls[k] = Call("create", "schedule_now", calls[k].target)
                /\ \E i \in SelectedJobs :
                      FetchedJobs[i].id = calls[k].target /\ FetchedJobs[i].disable # 1
          /\ batch # "none" =>
                \A i \in SelectedJobs : \E t \in 1..Len(tasks) : tasks[t].res = FetchedJobs[i]
          /\ \A t \in 1..Len(tasks) :
                (tasks[t].st # "pending" /\ tasks[t].res.disable # 1) =>
                   Triggers(tasks[t].res) # {}
          /\ Ended =>
                \A i \in SelectedJobs :
                   FetchedJobs[i].disable # 1 => Triggers(FetchedJobs[i]) # {}
    /\ (args.command = "replications" /\ pc = "done") =>
          /\ Len(listing) = Cardinality(SelectedJobs)
          /\ \A i \in SelectedJobs :
                \E l \in 1..Len(listing) :
                   /\ listing[l].id = FetchedJobs[i].id
                   /\ (listing[l].disable = "(disabled)") = (FetchedJobs[i].disable = 1)

\* the invocations whose action function has been called
Invoked == {t \in 1..Len(tasks) : tasks[t].st # "pending"}

ByIdsSelector == ~args.node /\ args.ids # <<>>

\* C14: under ByIds, whoever calls run_on_cluster_resources and in either
\* mode, the action function is called only on a resource whose str(vmid) is
\* one of the raw ids that were asked for.
C14_ByIdsRefilter ==
    (ByIdsSelector /\ args.command \notin ReplicationCommands) =>
        \A t \in Invoked :
           \E i \in 1..Len(args.ids) : args.ids[i] = Str(tasks[t].res.vmid)

\* the node that owns what an invocation acts on: the node of a guest, the
\* source node of a replication job
Owner(t) ==
    IF args.command \in ReplicationCommands THEN tasks[t].res.source ELSE tasks[t].res.node

\* C15: with --node and node names, for every command, a resource whose
\* action issued a create, set or delete call is owned by one of the nodes
\* that were asked for.
C15_NodeScoping ==
    (args.node /\ args.ids # <<>>) =>
        \A t \in 1..Len(tasks) :
           StateChanging(tasks[t].call) =>
              \E i \in 1..Len(args.ids) : args.ids[i] = Owner(t)

\* C16: within one batch no resource and no replication job is handed to the
\* action function twice, whatever the ids given and in either mode.
C16_AtMostOnce ==
    \A t, u \in 1..Len(tasks) : t # u => tasks[t].res # tasks[u].res


====
